---- MODULE Spec2Model ----
(***************************************************************************)
(* A model of jukebox/playlistgenerator.py: the PlaylistCollector that     *)
(* turns the content of a folder (or of a folder tree) into a playlist,    *)
(* the handlers of the special files (livestream, podcast and other .txt   *)
(* files, .m3u folder playlists), the podcast feed decoder and the         *)
(* class-wide file ending exclusion list.                                  *)
(*                                                                         *)
(* A Python str is a sequence of one-character strings, so that startswith,*)
(* endswith, casefold, strip, the string order, os.path.join and           *)
(* os.path.normpath are computed on the characters.  A function that can   *)
(* raise returns a record [pl, exc]: the playlist it leaves and the name of*)
(* the exception it raises ("none" when it returns).                       *)
(***************************************************************************)
EXTENDS Integers, Sequences, FiniteSets, TLC

VARIABLES
    fs,                 \* the files on disk: a set of [dir, name, lines, err]
    net,                \* what requests.get does for each URL
    _exclude_endings,   \* PlaylistCollector._exclude_endings (class attribute)
    _exclude_re,        \* PlaylistCollector._exclude_re (class attribute)
    playlist,           \* self.playlist of every collector
    _folder,            \* self._folder of every collector
    _recursive,         \* self._recursive of every collector
    raised,             \* the exception the last call raised to its caller
    last                \* the last call: its method and, for a parse(), the
                        \* collector it was called on

vars == <<fs, net, _exclude_endings, _exclude_re, playlist, _folder,
          _recursive, raised, last>>

----------------------------------------------------------------------------
(* Python str                                                              *)

\* The characters of the model in code point order (ASCII).
CodePoints ==
    <<" ", "#", "-", ".", "/",
      "0", "1", "2", "3", "4", "5", "6", "7", "8", "9", ":",
      "A", "B", "C", "D", "E", "F", "G", "H", "I", "J", "K", "L", "M",
      "N", "O", "P", "Q", "R", "S", "T", "U", "V", "W", "X", "Y", "Z",
      "a", "b", "c", "d", "e", "f", "g", "h", "i", "j", "k", "l", "m",
      "n", "o", "p", "q", "r", "s", "t", "u", "v", "w", "x", "y", "z",
      "~">>

\* ord(c)
Ord == [c \in {CodePoints[i] : i \in 1..Len(CodePoints)} |->
            CHOOSE i \in 1..Len(CodePoints) : CodePoints[i] = c]

\* str.casefold() of one ASCII character: A-Z to a-z
FoldChar(c) ==
    IF Ord[c] >= Ord["A"] /\ Ord[c] <= Ord["Z"]
    THEN CodePoints[Ord[c] + (Ord["a"] - Ord["A"])]
    ELSE c

\* str.casefold()
casefold(s) == [i \in 1..Len(s) |-> FoldChar(s[i])]

\* a < b on str: lexicographic by code point
StrLess(a, b) ==
    \E i \in 1..(Len(b)) :
        /\ i <= Len(a) + 1
        /\ \A j \in 1..(i - 1) : a[j] = b[j]
        /\ \/ i = Len(a) + 1
           \/ Ord[a[i]] < Ord[b[i]]

\* s.startswith(p)
startswith(s, p) == Len(p) <= Len(s) /\ SubSeq(s, 1, Len(p)) = p

\* s.endswith(p)
endswith(s, p) ==
    Len(p) <= Len(s) /\ SubSeq(s, Len(s) - Len(p) + 1, Len(s)) = p

\* s.strip(): leading and trailing blanks removed (a line's newline included;
\* the lines of the model are held without it)
strip(s) ==
    LET keep == {i \in 1..Len(s) : s[i] # " "}
    IN  IF keep = {} THEN << >>
        ELSE SubSeq(s, CHOOSE i \in keep : \A j \in keep : i <= j,
                       CHOOSE i \in keep : \A j \in keep : i >= j)

\* s.split('/')
RECURSIVE split(_)
split(s) ==
    LET at == {i \in 1..Len(s) : s[i] = "/"}
    IN  IF at = {} THEN <<s>>
        ELSE LET i == CHOOSE k \in at : \A j \in at : k <= j
             IN  <<SubSeq(s, 1, i - 1)>> \o split(SubSeq(s, i + 1, Len(s)))

\* '/'.join(comps)
RECURSIVE joinslash(_)
joinslash(comps) ==
    IF comps = << >> THEN << >>
    ELSE IF Len(comps) = 1 THEN comps[1]
    ELSE comps[1] \o <<"/">> \o joinslash(Tail(comps))

\* sorted(s, key=...): s is a sequence of [key, val]; Python's sort is stable,
\* so an element goes behind every element already placed whose key is not
\* greater.
SortInsert(s, x) ==
    LET n == Cardinality({i \in 1..Len(s) : ~StrLess(x.key, s[i].key)})
    IN  SubSeq(s, 1, n) \o <<x>> \o SubSeq(s, n + 1, Len(s))

RECURSIVE sorted(_)
sorted(s) ==
    IF s = << >> THEN << >>
    ELSE SortInsert(sorted(SubSeq(s, 1, Len(s) - 1)), s[Len(s)])

----------------------------------------------------------------------------
(* os.path                                                                 *)

\* os.path.join(a, b)
join(a, b) ==
    IF startswith(b, <<"/">>) THEN b
    ELSE IF a = << >> \/ endswith(a, <<"/">>) THEN a \o b
    ELSE a \o <<"/">> \o b

\* The component loop of posixpath.normpath
RECURSIVE NormComps(_, _, _)
NormComps(comps, new_comps, initial_slashes) ==
    IF comps = << >> THEN new_comps
    ELSE LET comp == Head(comps)
             n == Len(new_comps)
         IN  IF comp = << >> \/ comp = <<".">>
             THEN NormComps(Tail(comps), new_comps, initial_slashes)
             ELSE IF \/ comp # <<".", ".">>
                     \/ (initial_slashes = 0 /\ n = 0)
                     \/ (n > 0 /\ new_comps[n] = <<".", ".">>)
             THEN NormComps(Tail(comps), Append(new_comps, comp), initial_slashes)
             ELSE IF n > 0
             THEN NormComps(Tail(comps), SubSeq(new_comps, 1, n - 1), initial_slashes)
             ELSE NormComps(Tail(comps), new_comps, initial_slashes)

\* os.path.normpath(path)
normpath(path) ==
    IF path = << >> THEN <<".">>
    ELSE LET initial_slashes ==
                 IF ~startswith(path, <<"/">>) THEN 0
                 ELSE IF startswith(path, <<"/", "/">>)
                         /\ ~startswith(path, <<"/", "/", "/">>) THEN 2
                 ELSE 1
             body == joinslash(NormComps(split(path), << >>, initial_slashes))
             res == [i \in 1..initial_slashes |-> "/"] \o body
         IN  IF res = << >> THEN <<".">> ELSE res

\* The working directory of the process
Cwd == <<"/", "w">>

\* os.path.abspath(path)
abspath(path) == normpath(join(Cwd, path))

----------------------------------------------------------------------------
(* The file system: os.scandir, os.walk, open                              *)

\* The directories on disk.  They are the same in every run; the files in
\* them are the variable fs.
Dirs == {<<"/", "m">>, <<"/", "m", "/", "a">>, <<"/", "m", "/", "a", "/", "s">>, <<"/", "m", "/", "B">>, <<"/", "w">>}

\* The orders in which the file system layer may enumerate a directory.
ScanOrders == {"asc", "desc"}

FullPath(f) == join(f.dir, f.name)

\* os.path.basename of a directory path
BaseName(p) == LET c == split(p) IN c[Len(c)]

\* os.DirEntry of a file and of a sub-directory
FileEntry(f) ==
    [name |-> f.name, path |-> FullPath(f), is_file |-> TRUE,
     lines |-> f.lines, err |-> f.err]

DirEntry(d) ==
    [name |-> BaseName(d), path |-> d, is_file |-> FALSE,
     lines |-> << >>, err |-> "IsADirectoryError"]

\* The entries of directory path on the disk files
Entries(files, path) ==
    {FileEntry(f) : f \in {g \in files : g.dir = path}}
        \cup {DirEntry(d) : d \in {e \in Dirs : e # path /\ join(path, BaseName(e)) = e}}

\* A set of entries as the sequence the file system layer enumerates
RECURSIVE Ascending(_)
Ascending(S) ==
    IF S = {} THEN << >>
    ELSE LET m == CHOOSE x \in S : \A y \in S : x = y \/ StrLess(x.name, y.name)
         IN  <<m>> \o Ascending(S \ {m})

Reverse(s) == [i \in 1..Len(s) |-> s[Len(s) + 1 - i]]

Enumerate(S, order) ==
    IF order = "asc" THEN Ascending(S) ELSE Reverse(Ascending(S))

\* path is a file, or leads through one
ThroughFile(files, path) ==
    \E f \in files :
        FullPath(f) = path \/ startswith(path, FullPath(f) \o <<"/">>)

\* os.scandir(path)
scandir(files, path, order) ==
    IF path \in Dirs
    THEN [exc |-> "none", entries |-> Enumerate(Entries(files, path), order)]
    ELSE IF ThroughFile(files, path)
    THEN [exc |-> "NotADirectoryError", entries |-> << >>]
    ELSE [exc |-> "FileNotFoundError", entries |-> << >>]

\* os.walk(path, followlinks=True), top down; with onerror=None a directory
\* that cannot be listed yields nothing
RECURSIVE SubDirs(_)
SubDirs(entries) ==
    IF entries = << >> THEN << >>
    ELSE (IF Head(entries).is_file THEN << >> ELSE <<Head(entries)>>)
             \o SubDirs(Tail(entries))

RECURSIVE walk(_, _, _)
RECURSIVE WalkEach(_, _, _)
walk(files, path, order) ==
    LET sd == scandir(files, path, order)
    IN  IF sd.exc # "none" THEN << >>
        ELSE <<path>> \o WalkEach(files, SubDirs(sd.entries), order)

WalkEach(files, subdirs, order) ==
    IF subdirs = << >> THEN << >>
    ELSE walk(files, Head(subdirs).path, order)
             \o WalkEach(files, Tail(subdirs), order)

\* open(DirEntry) and open(DirEntry.path)
OpenEntry(e) == [exc |-> e.err, lines |-> e.lines]

\* open(name) of a str: resolved from the working directory
OpenPath(files, name) ==
    LET p == abspath(name)
        hit == {f \in files : FullPath(f) = p}
    IN  IF hit # {}
        THEN LET f == CHOOSE g \in hit : TRUE
             IN  [exc |-> f.err, lines |-> f.lines]
        ELSE IF p \in Dirs THEN [exc |-> "IsADirectoryError", lines |-> << >>]
        ELSE IF ThroughFile(files, p)
        THEN [exc |-> "NotADirectoryError", lines |-> << >>]
        ELSE [exc |-> "FileNotFoundError", lines |-> << >>]

----------------------------------------------------------------------------
(* The podcast feed decoder                                                *)

\* A feed body is a sequence of tokens [k, url]:
\*   "enclosure"  the text  enclosure
\*   "url"        an attribute  url="..."  with its value
\*   "text"       any other text without a line break
\*   "nl"         a line break
Tok(k, url) == [k |-> k, url |-> url]

\* The end of the line that holds position i: the first line break at or
\* after i, or one past the body ('.' does not match a line break)
Leftmost(S) == CHOOSE j \in S : \A h \in S : j <= h
Rightmost(S) == CHOOSE j \in S : \A h \in S : j >= h

LineEnd(body, i) ==
    LET nls == {j \in i..Len(body) : body[j].k = "nl"}
    IN  IF nls = {} THEN Len(body) + 1 ELSE Leftmost(nls)

\* The url tokens a match of enclosure_re starting at i can end with: a url
\* attribute on the line of i with the text enclosure between i and it
MatchEnds(body, i) ==
    {k \in i..(LineEnd(body, i) - 1) :
        /\ body[k].k = "url"
        /\ \E j \in i..(k - 1) : body[j].k = "enclosure"}

\* enclosure_re.findall(body) from position pos on: the leftmost match, both
\* '.*' taking as much as they can, then on behind the match
RECURSIVE findall(_, _)
findall(body, pos) ==
    LET starts == {i \in pos..Len(body) : MatchEnds(body, i) # {}}
    IN  IF starts = {} THEN << >>
        ELSE LET k == Rightmost(MatchEnds(body, Leftmost(starts)))
             IN  <<body[k].url>> \o findall(body, k + 1)

\* requests.get(url): a URL the network does not know fails to connect
Get(n, url) ==
    IF url \in DOMAIN n THEN n[url] ELSE [kind |-> "error", status_code |-> 0, body |-> << >>]

\* A decode_podcast_core that lets the exception of requests.get through
decode_podcast_core_raising(n, url, pl) ==
    LET r == Get(n, url)
    IN  IF r.kind = "error"
        THEN [pl |-> pl, exc |-> "ConnectionError"]
        ELSE [pl |-> pl \o findall(r.body, 1), exc |-> "none"]

\* decode_podcast_core(url, playlist)
decode_podcast_core(n, url, pl) ==
    LET r == Get(n, url)
    IN  IF r.kind = "error"
        THEN [pl |-> pl, exc |-> "none"]
        ELSE [pl |-> pl \o findall(r.body, 1), exc |-> "none"]

----------------------------------------------------------------------------
(* The handlers                                                            *)

\* The lines a list file contributes: stripped, not empty, not a comment
IsEntryLine(line) == Len(line) > 0 /\ ~startswith(line, <<"#">>)

RECURSIVE PodcastLines(_, _, _)

\* After decode_podcast_core ended as r: an exception ends the loop
AfterFeed(n, lines, r) ==
    IF r.exc # "none" THEN r ELSE PodcastLines(n, Tail(lines), r.pl)

PodcastLines(n, lines, pl) ==
    IF lines = << >> THEN [pl |-> pl, exc |-> "none"]
    ELSE LET line == strip(Head(lines))
         IN  IF IsEntryLine(line)
             THEN AfterFeed(n, lines, decode_podcast_core(n, line, pl))
             ELSE PodcastLines(n, Tail(lines), pl)

\* decode_podcast(filename, path, playlist); f is what open(filename) gives
decode_podcast(n, f, pl) ==
    IF f.exc # "none" THEN [pl |-> pl, exc |-> f.exc]
    ELSE PodcastLines(n, f.lines, pl)

RECURSIVE LivestreamLines(_, _)
LivestreamLines(lines, pl) ==
    IF lines = << >> THEN pl
    ELSE LET line == strip(Head(lines))
         IN  LivestreamLines(Tail(lines),
                             IF IsEntryLine(line) THEN Append(pl, line) ELSE pl)

\* decode_livestream(filename, path, playlist)
decode_livestream(e, pl) ==
    LET f == OpenEntry(e)
    IN  IF f.exc # "none" THEN [pl |-> pl, exc |-> f.exc]
        ELSE [pl |-> LivestreamLines(f.lines, pl), exc |-> "none"]

\* decode_musicfile(filename, path, playlist)
decode_musicfile(e, path, pl) ==
    [pl |-> Append(pl, normpath(join(path, e.name))), exc |-> "none"]

\* What decode_m3u does with a line that names a podcast
M3uPodcastLine(files, n, line, pl) ==
    decode_podcast(n, OpenPath(files, line), pl)

IsUrl(line) ==
    \/ startswith(line, <<"h", "t", "t", "p", ":", "/", "/">>)
    \/ startswith(line, <<"h", "t", "t", "p", "s", ":", "/", "/">>)
    \/ startswith(line, <<"f", "t", "p", ":", "/", "/">>)

IsPodcastRef(line) == endswith(line, <<".", "x", "m", "l">>) \/ endswith(line, <<".", "p", "o", "d", "c", "a", "s", "t">>)

RECURSIVE M3uLines(_, _, _, _, _)

\* After decode_podcast ended as r: an exception ends the loop
AfterPodcastLine(files, n, lines, path, r) ==
    IF r.exc # "none" THEN r ELSE M3uLines(files, n, Tail(lines), path, r.pl)

M3uLines(files, n, lines, path, pl) ==
    IF lines = << >> THEN [pl |-> pl, exc |-> "none"]
    ELSE LET line == strip(Head(lines))
         IN  IF ~IsEntryLine(line) THEN M3uLines(files, n, Tail(lines), path, pl)
             ELSE IF IsPodcastRef(line)
             THEN AfterPodcastLine(files, n, lines, path,
                                   M3uPodcastLine(files, n, line, pl))
             ELSE IF IsUrl(line)
             THEN M3uLines(files, n, Tail(lines), path, Append(pl, line))
             ELSE M3uLines(files, n, Tail(lines), path,
                           Append(pl, normpath(join(path, line))))

\* A decode_m3u that does not clear the playlist
M3uStartKeeps(pl) == pl

\* playlist.clear() at the head of decode_m3u
M3uStart(pl) == << >>

\* decode_m3u(filename, path, playlist)
decode_m3u(files, n, e, path, pl) ==
    LET f == OpenEntry(e)
    IN  IF f.exc # "none" THEN [pl |-> M3uStart(pl), exc |-> f.exc]
        ELSE M3uLines(files, n, f.lines, path, M3uStart(pl))

----------------------------------------------------------------------------
(* PlaylistCollector                                                       *)

\* A file ending of the exclusion list goes into the regular expression as
\* it is: [wild |-> FALSE, lit |-> s] is the ending s, [wild |-> TRUE,
\* lit |-> s] is the ending '.*' followed by s.
Ending(s) == [wild |-> FALSE, lit |-> s]
WildEnding(s) == [wild |-> TRUE, lit |-> s]

\* PlaylistCollector._exclude_endings as the class is defined
DefaultEndings ==
    <<Ending(<<"z", "i", "p">>), Ending(<<"p", "y">>), Ending(<<"d", "b">>), Ending(<<"p", "n", "g">>),
      Ending(<<"j", "p", "g">>), Ending(<<"c", "o", "n", "f">>), Ending(<<"y", "a", "m", "l">>), Ending(<<"j", "s", "o", "n">>),
      WildEnding(<<"~">>), WildEnding(<<"#">>)>>

\* re.compile('.*\\.((' + ')|('.join(endings) + '))$', re.IGNORECASE): the
\* alternatives of the pattern.  An empty list joins to '', one empty
\* alternative.
Compile(endings) ==
    IF endings = << >> THEN <<Ending(<< >>)>> ELSE endings

\* _exclude_re.match(name) is not None
ReMatch(re, name) ==
    \E k \in 1..Len(re), i \in 1..Len(name) :
        /\ name[i] = "."
        /\ LET rest == casefold(SubSeq(name, i + 1, Len(name)))
               lit == casefold(re[k].lit)
           IN  IF re[k].wild THEN endswith(rest, lit) ELSE rest = lit

\* PlaylistCollector._is_valid(direntry)
_is_valid(re, e) ==
    e.is_file /\ ~startswith(e.name, <<".">>) /\ ~ReMatch(re, e.name)

\* filter(PlaylistCollector._is_valid, entries)
RECURSIVE filter(_, _)
filter(re, entries) ==
    IF entries = << >> THEN << >>
    ELSE (IF _is_valid(re, Head(entries)) THEN <<Head(entries)>> ELSE << >>)
             \o filter(re, Tail(entries))

\* The keys of self.special_handlers in their order
SpecialKeys == <<<<"l", "i", "v", "e", "s", "t", "r", "e", "a", "m", ".", "t", "x", "t">>, <<"p", "o", "d", "c", "a", "s", "t", ".", "t", "x", "t">>, <<".", "t", "x", "t">>, <<".", "m", "3", "u">>>>

\* The key of the first special handler the name ends with, 0 for none
HandlerKey(name) ==
    LET hit == {k \in 1..Len(SpecialKeys) : endswith(casefold(name), SpecialKeys[k])}
    IN  IF hit = {} THEN 0 ELSE CHOOSE k \in hit : \A j \in hit : k <= j

\* stop_processing = self.special_handlers[key](filename, path, folder_playlist),
\* or self.default_handler(...): [pl, exc, stop]
Handle(files, n, e, path, pl) ==
    LET key == HandlerKey(e.name)
        with(r, stop) == [pl |-> r.pl, exc |-> r.exc, stop |-> stop]
    IN  IF key = 0 THEN with(decode_musicfile(e, path, pl), FALSE)
        ELSE IF SpecialKeys[key] = <<"l", "i", "v", "e", "s", "t", "r", "e", "a", "m", ".", "t", "x", "t">>
        THEN with(decode_livestream(e, pl), FALSE)
        ELSE IF SpecialKeys[key] = <<"p", "o", "d", "c", "a", "s", "t", ".", "t", "x", "t">>
        THEN with(decode_podcast(n, OpenEntry(e), pl), FALSE)
        ELSE IF SpecialKeys[key] = <<".", "t", "x", "t">>
        THEN [pl |-> pl, exc |-> "none", stop |-> FALSE]
        ELSE with(decode_m3u(files, n, e, path, pl), TRUE)

\* The loop of _parse_nonrecusive over the sorted directory
RECURSIVE ForEachFile(_, _, _, _, _)

\* After the handler ended as r: an exception ends the loop, and so does
\* stop_processing
AfterHandler(files, n, directory, path, r) ==
    IF r.exc # "none" THEN [pl |-> r.pl, exc |-> r.exc]
    ELSE IF r.stop THEN [pl |-> r.pl, exc |-> "none"]
    ELSE ForEachFile(files, n, Tail(directory), path, r.pl)

ForEachFile(files, n, directory, path, pl) ==
    IF directory = << >> THEN [pl |-> pl, exc |-> "none"]
    ELSE AfterHandler(files, n, directory, path,
                      Handle(files, n, Head(directory), path, pl))

\* sorted(directory, key=lambda x: x.name.casefold())
SortedDirectory(directory) ==
    LET keyed == [i \in 1..Len(directory) |->
                     [key |-> casefold(directory[i].name), val |-> directory[i]]]
        s == sorted(keyed)
    IN  [i \in 1..Len(s) |-> s[i].val]

\* self._parse_nonrecusive(path)
_parse_nonrecusive(files, n, re, path, order) ==
    LET sd == scandir(files, path, order)
    IN  IF sd.exc # "none" THEN [pl |-> << >>, exc |-> sd.exc]
        ELSE ForEachFile(files, n, SortedDirectory(filter(re, sd.entries)),
                         path, << >>)

\* sorted(dir_list, key=lambda x: x.casefold())
SortedDirList(dir_list) ==
    LET keyed == [i \in 1..Len(dir_list) |->
                     [key |-> casefold(dir_list[i]), val |-> dir_list[i]]]
        s == sorted(keyed)
    IN  [i \in 1..Len(s) |-> s[i].val]

\* The loop of _parse_recursive over the sorted directory list
RECURSIVE ForEachDir(_, _, _, _, _, _)

\* After self._parse_nonrecusive(d) ended as r: an exception ends the loop
AfterFolder(files, n, re, dir_list, order, recursive_playlist, r) ==
    IF r.exc # "none" THEN [pl |-> recursive_playlist, exc |-> r.exc]
    ELSE ForEachDir(files, n, re, Tail(dir_list), order,
                    recursive_playlist \o r.pl)

ForEachDir(files, n, re, dir_list, order, recursive_playlist) ==
    IF dir_list = << >> THEN [pl |-> recursive_playlist, exc |-> "none"]
    ELSE AfterFolder(files, n, re, dir_list, order, recursive_playlist,
                     _parse_nonrecusive(files, n, re, Head(dir_list), order))

\* self._parse_recursive(path)
_parse_recursive(files, n, re, path, order) ==
    ForEachDir(files, n, re, SortedDirList(walk(files, path, order)), order, << >>)

\* The music_library_base_path the collectors are built with
BasePath == <<"/", "m">>

\* A parse() that catches every exception
CaughtAny(exc) == exc # "none"

\* The exceptions parse() catches and logs
Caught(exc) == exc \in {"NotADirectoryError", "FileNotFoundError"}

\* A parse() that does not empty the playlist first
PlaylistKept(old) == old

\* self.playlist = [] at the head of parse()
PlaylistReset(old) == << >>

\* func(self._folder)
func(files, n, re, folder, recursive, order) ==
    IF recursive THEN _parse_recursive(files, n, re, folder, order)
    ELSE _parse_nonrecusive(files, n, re, folder, order)

\* The try statement of parse() around func, which ends as r
TryFunc(old, folder, recursive, r) ==
    [playlist |-> IF r.exc = "none" THEN r.pl ELSE PlaylistReset(old),
     folder |-> folder,
     recursive |-> recursive,
     raised |-> IF Caught(r.exc) THEN "none" ELSE r.exc]

\* parse(path, recursive): what it leaves in the collector, and what it raises
parse(old, files, n, re, path, recursive, order) ==
    LET folder == abspath(join(abspath(BasePath), path))
    IN  TryFunc(old, folder, recursive,
                func(files, n, re, folder, recursive, order))

\* A set_exclusion_endings() that does not compile the pattern again
set_exclusion_endings_stale(endings) ==
    [endings |-> endings, re |-> _exclude_re]

\* set_exclusion_endings(endings): the class attributes it leaves
set_exclusion_endings(endings) ==
    [endings |-> endings, re |-> Compile(endings)]

----------------------------------------------------------------------------
(* The inputs                                                              *)

\* The most files a disk of the model holds
MaxFiles == 3

\* The collectors of the process
Collectors == {"p1", "p2"}

\* The paths handed to parse(): the base folder, three folders, a path that
\* does not exist, and a path that is a file when the disk holds it
ParsePaths == {<<".">>, <<"a">>, <<"a", "/", "s">>, <<"B">>, <<"z", "z">>, <<"a", "/", "x", ".", "m", "p", "3">>}

\* The folder the runs that look at one folder parse
FolderA == <<"a">>

\* The lists handed to set_exclusion_endings()
EndingChoices ==
    {DefaultEndings, Append(DefaultEndings, Ending(<<"l", "o", "g">>)), <<Ending(<<"m", "p", "3">>)>>}

File(dir, name, lines, err) ==
    [dir |-> dir, name |-> name, lines |-> lines, err |-> err]

\* Feed bodies
U1 == <<"u", "1">>
U2 == <<"u", "2">>
U3 == <<"u", "3">>

\* two enclosure elements on two lines
BodyTwoLines ==
    <<Tok("text", << >>), Tok("enclosure", << >>), Tok("url", U1), Tok("nl", << >>),
      Tok("enclosure", << >>), Tok("url", U2), Tok("text", << >>)>>

\* two enclosure elements on one line
BodyOneLine ==
    <<Tok("enclosure", << >>), Tok("url", U1), Tok("text", << >>),
      Tok("enclosure", << >>), Tok("url", U2)>>

\* one enclosure element, and on its line another element with a url
BodyOtherUrl ==
    <<Tok("enclosure", << >>), Tok("url", U1), Tok("text", << >>),
      Tok("url", U3), Tok("nl", << >>), Tok("url", U2)>>

\* no enclosure element
BodyNone == <<Tok("text", << >>), Tok("nl", << >>), Tok("url", U3)>>

Ok(status, body) == [kind |-> "ok", status_code |-> status, body |-> body]
ConnectionError == [kind |-> "error", status_code |-> 0, body |-> << >>]

Responses ==
    {ConnectionError, Ok(200, BodyTwoLines), Ok(200, BodyOneLine),
     Ok(404, BodyOtherUrl), Ok(200, BodyNone)}

FeedP == <<"h", "t", "t", "p", ":", "/", "/", "h", "/", "p">>
FeedQ == <<"h", "t", "t", "p", ":", "/", "/", "h", "/", "q">>
FeedXml == <<"h", "t", "t", "p", ":", "/", "/", "h", "/", "f", ".", "x", "m", "l">>

\* The network of the runs that do not vary it
NetFixed ==
    (FeedP :> Ok(200, BodyTwoLines)) @@ (FeedQ :> ConnectionError)
        @@ (FeedXml :> Ok(200, BodyTwoLines))

\* The files a disk of the tree runs is drawn from
PoolTree ==
    {File(<<"/", "m">>, <<"r", ".", "m", "p", "3">>, << >>, "none"),
     File(<<"/", "m", "/", "a">>, <<"x", ".", "m", "p", "3">>, << >>, "none"),
     File(<<"/", "m", "/", "a">>, <<"d", ".", "l", "o", "g">>, << >>, "none"),
     File(<<"/", "m", "/", "a", "/", "s">>, <<"s", ".", "m", "p", "3">>, << >>, "none"),
     File(<<"/", "m", "/", "B">>, <<"b", ".", "m", "p", "3">>, << >>, "none"),
     File(<<"/", "m", "/", "B">>, <<"k", ".", "m", "3", "u">>, <<<<"c", ".", "m", "p", "3">>>>, "none"),
     File(<<"/", "m", "/", "B">>, <<"f", ".", "m", "3", "u">>, <<<<"c", ".", "m", "p", "3">>, FeedXml>>, "none")}

\* The files a disk of the runs with two collectors is drawn from
PoolShared ==
    {File(<<"/", "m", "/", "a">>, <<"x", ".", "m", "p", "3">>, << >>, "none"),
     File(<<"/", "m", "/", "a">>, <<"d", "e", "b", "u", "g", ".", "l", "o", "g">>, << >>, "none"),
     File(<<"/", "m", "/", "a">>, <<"e", ".", "z", "i", "p">>, << >>, "none"),
     File(<<"/", "m", "/", "a", "/", "s">>, <<"s", ".", "m", "p", "3">>, << >>, "none")}

\* The files a disk of the folder runs is drawn from: all in /m/a, but the
\* podcast list an m3u line names, which is looked up from the working
\* directory
PoolFolder ==
    {File(<<"/", "m", "/", "a">>, <<"a", ".", "m", "p", "3">>, << >>, "none"),
     File(<<"/", "m", "/", "a">>, <<"A", ".", "m", "p", "3">>, << >>, "none"),
     File(<<"/", "m", "/", "a">>, <<"B", ".", "m", "p", "3">>, << >>, "none"),
     File(<<"/", "m", "/", "a">>, <<".", "h">>, << >>, "none"),
     File(<<"/", "m", "/", "a">>, <<"e", ".", "Z", "I", "P">>, << >>, "none"),
     File(<<"/", "m", "/", "a">>, <<"n", ".", "t", "x", "t">>, <<<<"h", "t", "t", "p", ":", "/", "/", "s", "/", "9">>>>, "none"),
     File(<<"/", "m", "/", "a">>, <<"l", "-", "l", "i", "v", "e", "s", "t", "r", "e", "a", "m", ".", "t", "x", "t">>,
          <<<<"#", "c">>, <<" ", "h", "t", "t", "p", ":", "/", "/", "s", "/", "1", " ">>, << >>, <<"h", "t", "t", "p", ":", "/", "/", "s", "/", "2">>>>, "none"),
     File(<<"/", "m", "/", "a">>, <<"q", "-", "l", "i", "v", "e", "s", "t", "r", "e", "a", "m", ".", "t", "x", "t">>, <<<<"h", "t", "t", "p", ":", "/", "/", "s", "/", "3">>>>, "PermissionError"),
     File(<<"/", "m", "/", "a">>, <<"p", "o", "d", "c", "a", "s", "t", ".", "t", "x", "t">>, <<FeedP, <<"#", " ", "c">>, FeedQ>>, "none"),
     File(<<"/", "m", "/", "a">>, <<"v", "-", "p", "o", "d", "c", "a", "s", "t", ".", "t", "x", "t">>, <<FeedP>>, "FileNotFoundError"),
     File(<<"/", "m", "/", "a">>, <<"0", "1", ".", "m", "3", "u">>,
          <<<<"#", "c">>, <<"c", ".", "m", "p", "3">>, <<"h", "t", "t", "p", ":", "/", "/", "s", "/", "1">>, <<".", ".", "/", "B", "/", "b", ".", "m", "p", "3">>>>, "none"),
     File(<<"/", "m", "/", "a">>, <<"0", "2", ".", "M", "3", "U">>, <<<<"d", ".", "m", "p", "3">>>>, "none"),
     File(<<"/", "m", "/", "a">>, <<"k", ".", "m", "3", "u">>, <<<<"c", ".", "m", "p", "3">>, <<" ">>, <<"d", ".", "m", "p", "3">>>>, "none"),
     File(<<"/", "m", "/", "a">>, <<"f", ".", "m", "3", "u">>, <<<<"c", ".", "m", "p", "3">>, FeedXml, <<"d", ".", "m", "p", "3">>>>, "none"),
     File(<<"/", "m", "/", "a">>, <<"g", ".", "m", "3", "u">>, <<<<"c", ".", "m", "p", "3">>, <<"r", ".", "p", "o", "d", "c", "a", "s", "t">>, <<"d", ".", "m", "p", "3">>>>, "none"),
     File(<<"/", "m", "/", "a">>, <<"h", ".", "m", "3", "u">>, <<<<"r", ".", "p", "o", "d", "c", "a", "s", "t", "/", "f", ".", "x", "m", "l">>>>, "none"),
     File(<<"/", "m", "/", "a">>, <<"u", ".", "m", "3", "u">>, <<<<"c", ".", "m", "p", "3">>>>, "PermissionError"),
     File(<<"/", "w">>, <<"r", ".", "p", "o", "d", "c", "a", "s", "t">>, <<FeedP>>, "none")}

\* The files a disk of the feed runs is drawn from
PoolFeed ==
    {File(<<"/", "m", "/", "a">>, <<"p", "o", "d", "c", "a", "s", "t", ".", "t", "x", "t">>, <<FeedP, FeedQ>>, "none"),
     File(<<"/", "m", "/", "a">>, <<"x", ".", "m", "p", "3">>, << >>, "none"),
     File(<<"/", "m", "/", "a">>, <<"a", "-", "l", "i", "v", "e", "s", "t", "r", "e", "a", "m", ".", "t", "x", "t">>, <<<<"h", "t", "t", "p", ":", "/", "/", "s", "/", "1">>>>, "none"),
     File(<<"/", "m", "/", "B">>, <<"b", ".", "m", "p", "3">>, << >>, "none")}

\* The disks drawn from a pool: at most MaxFiles files, no path twice
Disks(pool) ==
    {S \in SUBSET pool :
        /\ Cardinality(S) <= MaxFiles
        /\ \A f, g \in S : FullPath(f) = FullPath(g) => f = g}

NoCall == [op |-> "none", inst |-> "none"]

----------------------------------------------------------------------------
(* The state machine                                                       *)

\* After the class is defined and the collectors are constructed
InitState ==
    /\ _exclude_endings = DefaultEndings
    /\ _exclude_re = Compile(DefaultEndings)
    /\ playlist = [i \in Collectors |-> << >>]
    /\ _folder = [i \in Collectors |-> << >>]
    /\ _recursive = [i \in Collectors |-> FALSE]
    /\ raised = "none"
    /\ last = NoCall

\* collector i: parse(path, recursive), the file system enumerating in order
Parse(i, path, recursive, order) ==
    \E r \in {parse(playlist[i], fs, net, _exclude_re, path, recursive, order)} :
        /\ playlist' = [playlist EXCEPT ![i] = r.playlist]
        /\ _folder' = [_folder EXCEPT ![i] = r.folder]
        /\ _recursive' = [_recursive EXCEPT ![i] = r.recursive]
        /\ raised' = r.raised
        /\ last' = [op |-> "parse", inst |-> i]
        /\ UNCHANGED <<fs, net, _exclude_endings, _exclude_re>>

\* PlaylistCollector.set_exclusion_endings(endings), through the class or
\* through a collector
SetExclusionEndings(endings) ==
    \E r \in {set_exclusion_endings(endings)} :
        /\ _exclude_endings' = r.endings
        /\ _exclude_re' = r.re
        /\ raised' = "none"
        /\ last' = [op |-> "set", inst |-> "none"]
        /\ UNCHANGED <<fs, net, playlist, _folder, _recursive>>

\* Two collectors parse one folder, and the exclusion list is set
Init ==
    /\ fs \in Disks(PoolShared)
    /\ net = NetFixed
    /\ InitState

ParseShared ==
    \E i \in Collectors, recursive \in BOOLEAN, order \in ScanOrders :
        Parse(i, FolderA, recursive, order)

SetAny == \E endings \in EndingChoices : SetExclusionEndings(endings)

Next == ParseShared \/ SetAny

Spec == Init /\ [][Next]_vars

\* One collector parses the paths of a folder tree
InitTree ==
    /\ fs \in Disks(PoolTree)
    /\ net = NetFixed
    /\ InitState

ParseTree ==
    \E path \in ParsePaths, recursive \in BOOLEAN, order \in ScanOrders :
        Parse("p1", path, recursive, order)

SpecTree == InitTree /\ [][ParseTree]_vars

\* One collector parses one folder
InitFolder ==
    /\ fs \in Disks(PoolFolder)
    /\ net = NetFixed
    /\ InitState

ParseFolder ==
    \E recursive \in BOOLEAN, order \in ScanOrders :
        Parse("p1", FolderA, recursive, order)

SpecFolder == InitFolder /\ [][ParseFolder]_vars

\* One collector parses folders with podcast lists, the feeds varying
InitFeed ==
    /\ fs \in Disks(PoolFeed)
    /\ net \in [{FeedP, FeedQ} -> Responses]
    /\ InitState

ParseFeed ==
    \E path \in {FolderA, <<".">>}, recursive \in BOOLEAN, order \in ScanOrders :
        Parse("p1", path, recursive, order)

SpecFeed == InitFeed /\ [][ParseFeed]_vars

----------------------------------------------------------------------------
(* What the properties speak of                                            *)

\* The last call was a parse(), of collector Me, of folder Folder
LastParse == last.op = "parse"
Me == last.inst
Folder == _folder[Me]

\* The entries of the parsed folder that pass _is_valid
Valid == {e \in Entries(fs, Folder) : _is_valid(_exclude_re, e)}

Key(e) == casefold(e.name)
KeyLess(d, e) == StrLess(Key(d), Key(e))

\* The folder playlists of the parsed folder, and the first of them by key
IsM3u(e) == endswith(Key(e), <<".", "m", "3", "u">>)
M3us == {e \in Valid : IsM3u(e)}
FirstM3us == {m \in M3us : \A o \in M3us : ~KeyLess(o, m)}

\* A file the walk opens: a livestream list, a podcast list, a folder playlist
IsListFile(e) ==
    \/ endswith(Key(e), <<"l", "i", "v", "e", "s", "t", "r", "e", "a", "m", ".", "t", "x", "t">>)
    \/ endswith(Key(e), <<"p", "o", "d", "c", "a", "s", "t", ".", "t", "x", "t">>)
    \/ IsM3u(e)

\* Every list file sorted before m can be read
ReadableBefore(m) ==
    \A e \in Valid : (KeyLess(e, m) /\ IsListFile(e)) => e.err = "none"

\* The lines of a list file that count, stripped
Kept(lines) ==
    SelectSeq([i \in 1..Len(lines) |-> strip(lines[i])], IsEntryLine)

\* What parse() leaves when the walk ends as r does
Left(r) ==
    [playlist |-> IF r.exc = "none" THEN r.pl ELSE << >>,
     raised |-> IF r.exc \in {"NotADirectoryError", "FileNotFoundError"}
                THEN "none" ELSE r.exc]

Range(s) == {s[i] : i \in 1..Len(s)}

----------------------------------------------------------------------------
(* C1: a folder with a folder playlist contributes the entries of its      *)
(* first folder playlist only                                              *)

\* A line of a folder playlist that names no podcast, as an entry
PlainEntry(line) ==
    IF IsUrl(line) THEN line ELSE normpath(join(Folder, line))

\* C1: when the parsed folder holds a '.m3u' that passes the filter (and the
\* list files sorted before it can be read), the playlist is what the first
\* '.m3u' by case-folded name yields from an empty list, the entries of the
\* files sorted before it gone and no file after it processed; when none of
\* its lines names a podcast and it can be read, the playlist is its kept
\* lines, one entry for each, in the order of the lines.
C1_FirstM3uOnly ==
    (LastParse /\ Folder \in Dirs /\ M3us # {}
        /\ \A m \in FirstM3us : ReadableBefore(m))
    => \E m \in FirstM3us :
          /\ LET r == Left(decode_m3u(fs, net, m, Folder, << >>))
             IN  playlist[Me] = r.playlist /\ raised = r.raised
          /\ (m.err = "none" /\ \A l \in Range(Kept(m.lines)) : ~IsPodcastRef(l))
             => /\ raised = "none"
                /\ playlist[Me] =
                     [k \in 1..Len(Kept(m.lines)) |-> PlainEntry(Kept(m.lines)[k])]

\* C1's case: a playlist built from a '.m3u' with a music file sorted before
\* it and another file sorted after it
C1_Witness ==
    /\ LastParse /\ Folder \in Dirs
    /\ \E m \in FirstM3us :
          /\ m.err = "none"
          /\ playlist[Me] = <<<<"/", "m", "/", "a", "/", "c", ".", "m", "p", "3">>, <<"/", "m", "/", "a", "/", "d", ".", "m", "p", "3">>>>
          /\ \E e \in Valid : KeyLess(e, m) /\ HandlerKey(e.name) = 0
          /\ \E e \in Valid : KeyLess(m, e)

----------------------------------------------------------------------------
(* C2: the entries of plain media files                                    *)

\* The files of the parsed folder, and the path parse() was called with
FolderFiles == {e \in Entries(fs, Folder) : e.is_file}

RelPathOf(folder) ==
    CHOOSE p \in ParsePaths : abspath(join(abspath(BasePath), p)) = folder

RelFolder == RelPathOf(Folder)

PlainMedia(e) ==
    /\ ~startswith(e.name, <<".">>)
    /\ ~ReMatch(_exclude_re, e.name)
    /\ HandlerKey(e.name) = 0

\* C2: when the parsed folder holds plain media files only, the playlist has
\* one entry for each file, and each entry is the file's normalized path
\* relative to the music library base path: the relative folder and the
\* file name, the base path left out.
C2_RelativeEntries ==
    (LastParse /\ Folder \in Dirs /\ FolderFiles # {}
        /\ \A e \in FolderFiles : PlainMedia(e))
    => /\ raised = "none"
       /\ Len(playlist[Me]) = Cardinality(FolderFiles)
       /\ Range(playlist[Me]) =
              {normpath(join(RelFolder, e.name)) : e \in FolderFiles}

----------------------------------------------------------------------------
(* C3: the same playlist for every enumeration order                       *)

\* The valid entries in an order in which the keys do not decrease
Arrangements(S) ==
    {s \in [1..Cardinality(S) -> S] :
        /\ \A i, j \in 1..Cardinality(S) : i # j => s[i] # s[j]
        /\ \A i, j \in 1..Cardinality(S) : i < j => ~KeyLess(s[j], s[i])}

\* C3: when the parsed folder holds no folder playlist, its entries come out
\* in the case-folded order of the names of the files they stem from, and
\* the playlist is the same for every order in which the file system
\* enumerates the folder.
C3_SameForEveryOrder ==
    (LastParse /\ Folder \in Dirs /\ M3us = {})
    => /\ \E arr \in Arrangements(Valid) :
              LET r == Left(ForEachFile(fs, net, arr, Folder, << >>))
              IN  playlist[Me] = r.playlist /\ raised = r.raised
       /\ \A order \in ScanOrders :
              parse(playlist[Me], fs, net, _exclude_re, RelFolder,
                    _recursive[Me], order).playlist = playlist[Me]

----------------------------------------------------------------------------
(* C5: the podcast lines of a folder playlist                              *)

\* The entries of the kept lines of a folder playlist when a line that ends
\* in '.xml' or '.podcast' is handed to the feed decoder as a URL
RECURSIVE ClaimedM3u(_, _)
ClaimedM3u(kept, pl) ==
    IF kept = << >> THEN pl
    ELSE ClaimedM3u(Tail(kept),
                    IF IsPodcastRef(Head(kept))
                    THEN decode_podcast_core(net, Head(kept), pl).pl
                    ELSE Append(pl, PlainEntry(Head(kept))))

\* C5: when the folder playlist of the parsed folder has a line ending in
\* '.xml' or '.podcast', that line is fetched as a feed URL and the
\* enclosure URLs of the feed stand in the playlist at the place of the line,
\* between the entries of the lines before and after it.
C5_FeedLinesFetched ==
    (LastParse /\ Folder \in Dirs /\ M3us # {}
        /\ \A m \in FirstM3us :
              /\ ReadableBefore(m)
              /\ m.err = "none"
              /\ \E l \in Range(Kept(m.lines)) : IsPodcastRef(l))
    => \E m \in FirstM3us :
          /\ raised = "none"
          /\ playlist[Me] = ClaimedM3u(Kept(m.lines), << >>)

----------------------------------------------------------------------------
(* C8: read failures of list files                                         *)

\* The list files the walk opens: none sorted behind a folder playlist
Reached(e) ==
    e \in Valid /\ IsListFile(e) /\ \A m \in M3us : ~KeyLess(m, e)

OpenFailures == {e \in Valid : Reached(e) /\ e.err # "none"}

\* The first line of folder playlist m that names a podcast list which cannot
\* be opened: the exception of the open, "none" when there is no such line
RefFailure(m) ==
    LET kept == Kept(m.lines)
        bad == {i \in 1..Len(kept) :
                   IsPodcastRef(kept[i]) /\ OpenPath(fs, kept[i]).exc # "none"}
    IN  IF bad = {} THEN "none"
        ELSE OpenPath(fs, kept[CHOOSE i \in bad : \A j \in bad : i <= j]).exc

\* The read failure the walk of the parsed folder meets first, "none" when
\* it meets none
MetFailure ==
    IF OpenFailures # {}
    THEN (CHOOSE e \in OpenFailures : \A o \in OpenFailures : ~KeyLess(o, e)).err
    ELSE IF M3us # {}
    THEN RefFailure(CHOOSE m \in FirstM3us : TRUE)
    ELSE "none"

\* C8 as stated: a read failure on a list file met after the folder was
\* enumerated, the file not being found included, reaches the caller of
\* parse() as an error.
C8_EveryReadFailureRaised ==
    (LastParse /\ Folder \in Dirs /\ MetFailure # "none")
    => raised = MetFailure

\* C8 as amended: a read failure on a list file met after the folder was
\* enumerated reaches the caller of parse() as an error, unless it is a
\* FileNotFoundError or a NotADirectoryError: these parse() catches and
\* logs, raising nothing; in both cases the playlist is left empty.
C8_ReadFailureRaisedUnlessCaught ==
    (LastParse /\ Folder \in Dirs /\ MetFailure # "none")
    => /\ playlist[Me] = << >>
       /\ raised = IF MetFailure \in {"FileNotFoundError", "NotADirectoryError"}
                   THEN "none" ELSE MetFailure

\* C8's case: a list file that cannot be read for lack of permission, met
\* after a readable one, and the error raised to the caller
C8_Witness ==
    /\ LastParse /\ Folder \in Dirs
    /\ MetFailure = "PermissionError"
    /\ raised = "PermissionError"
    /\ \E e \in Valid : Reached(e) /\ e.err = "none" /\ e.lines # << >>

----------------------------------------------------------------------------
(* C4: the recursive playlist                                              *)

\* The directories of the tree below the parsed folder, the folder included,
\* by case-folded path (no two directories of the model share one)
SubTree == {d \in Dirs : d = Folder \/ startswith(d, Folder \o <<"/">>)}

RECURSIVE ByFoldedPath(_)
ByFoldedPath(S) ==
    IF S = {} THEN << >>
    ELSE LET d == CHOOSE x \in S : \A y \in S : ~StrLess(casefold(y), casefold(x))
         IN  <<d>> \o ByFoldedPath(S \ {d})

\* What a parse() of directory d alone leaves as the playlist
FolderResult(d, order) ==
    parse(<< >>, fs, net, _exclude_re, d, FALSE, order).playlist

RECURSIVE Concatenated(_, _)
Concatenated(dirs, order) ==
    IF dirs = << >> THEN << >>
    ELSE FolderResult(Head(dirs), order) \o Concatenated(Tail(dirs), order)

\* C4: a recursive parse leaves the per-folder playlists of every directory
\* of the tree, the start folder included, one behind the other in the
\* case-folded order of the directory paths; what a folder playlist does in
\* one folder takes no entry of another folder away.
C4_ConcatenatedFolders ==
    (LastParse /\ _recursive[Me] /\ Folder \in Dirs)
    => \E order \in ScanOrders :
          playlist[Me] = Concatenated(ByFoldedPath(SubTree), order)

----------------------------------------------------------------------------
(* C7: a path that is no directory                                         *)

\* C7: whatever the collector held before, a parse() of a path that does not
\* exist or is not a directory, recursive or not, raises nothing and leaves
\* the playlist of the collector empty.
C7_NoDirectoryLeavesEmpty ==
    (LastParse /\ Folder \notin Dirs)
    => raised = "none" /\ playlist[Me] = << >>

\* C7's cases: a recursive parse of a path that is a file, and a parse of a
\* path that does not exist
C7_Witness ==
    /\ LastParse /\ Folder \notin Dirs
    /\ _recursive[Me]
    /\ ThroughFile(fs, Folder)
    /\ \E f \in fs : f.dir = <<"/", "m", "/", "a">> /\ HandlerKey(f.name) = 0

----------------------------------------------------------------------------
(* C10: the exclusion list is shared                                       *)

\* C10: a parse() of any collector filters with the list the last
\* set_exclusion_endings() installed (the list of the class definition before
\* the first), and leaves the playlists of the other collectors alone; a
\* set_exclusion_endings() leaves every playlist as it is.
C10_SharedExclusion ==
    [][/\ last'.op = "set" => playlist' = playlist
       /\ last'.op = "parse" =>
             LET i == last'.inst
             IN  /\ \E order \in ScanOrders :
                        playlist'[i] =
                            parse(playlist[i], fs, net, Compile(_exclude_endings),
                                  RelPathOf(_folder'[i]), _recursive'[i],
                                  order).playlist
                 /\ \A j \in Collectors \ {i} : playlist'[j] = playlist[j]]_vars

\* C10's case: the first collector parsed the folder before 'log' was put on
\* the list and keeps debug.log, the second parsed it afterwards
C10_Witness ==
    /\ LastParse /\ Me = "p2"
    /\ _exclude_endings = Append(DefaultEndings, Ending(<<"l", "o", "g">>))
    /\ _folder["p1"] = _folder["p2"]
    /\ playlist["p1"] = <<<<"/", "m", "/", "a", "/", "d", "e", "b", "u", "g", ".", "l", "o", "g">>, <<"/", "m", "/", "a", "/", "x", ".", "m", "p", "3">>>>
    /\ playlist["p2"] = <<<<"/", "m", "/", "a", "/", "x", ".", "m", "p", "3">>>>

----------------------------------------------------------------------------
(* C6: a feed that cannot be fetched                                       *)

\* The network with an empty feed for every URL that fails to connect
Healed ==
    [u \in DOMAIN net |->
        IF net[u].kind = "error" THEN Ok(200, << >>) ELSE net[u]]

\* C6: a feed whose fetch fails with a network error adds no entry and stops
\* nothing: the playlist, and what parse() raises, are those of a network on
\* which that feed is fetched and holds no enclosure.
C6_FailedFetchIsEmptyFeed ==
    LastParse
    => \E order \in ScanOrders :
          LET r == parse(playlist[Me], fs, Healed, _exclude_re, RelFolder,
                         _recursive[Me], order)
          IN  playlist[Me] = r.playlist /\ raised = r.raised

\* C6's case: the first feed of the podcast list fails, the entries of the
\* livestream list before it are kept, the second feed is fetched and the
\* music file behind the podcast list is added
C6_Witness ==
    /\ LastParse
    /\ net[FeedP].kind = "error"
    /\ playlist[Me] = <<<<"h", "t", "t", "p", ":", "/", "/", "s", "/", "1">>, U1, U2, <<"/", "m", "/", "a", "/", "x", ".", "m", "p", "3">>>>

----------------------------------------------------------------------------
(* C9: the enclosures of a feed                                            *)

\* The URL of every enclosure element of a feed body, in the order of the body
EnclosureUrls(body) ==
    LET at == SelectSeq([k \in 1..Len(body) |-> k],
                        LAMBDA k : /\ body[k].k = "url"
                                   /\ k > 1
                                   /\ body[k - 1].k = "enclosure")
    IN  [i \in 1..Len(at) |-> body[at[i]].url]

RECURSIVE EnclosuresOf(_)
EnclosuresOf(urls) ==
    IF urls = << >> THEN << >>
    ELSE (IF Get(net, Head(urls)).kind = "error" THEN << >>
          ELSE EnclosureUrls(Get(net, Head(urls)).body))
             \o EnclosuresOf(Tail(urls))

\* C9: when the parsed folder holds a podcast list and nothing else, the
\* playlist is the URL of every enclosure element of the fetched feeds, one
\* entry for each element in the order of the body, be the elements on
\* lines of their own or on one line.
C9_EveryEnclosure ==
    (LastParse /\ Folder \in Dirs /\ ~_recursive[Me]
        /\ \E e \in Valid :
              /\ Valid = {e}
              /\ endswith(Key(e), <<"p", "o", "d", "c", "a", "s", "t", ".", "t", "x", "t">>)
              /\ e.err = "none")
    => LET e == CHOOSE x \in Valid : TRUE
       IN  playlist[Me] = EnclosuresOf(Kept(e.lines))

====
